---------------------------- MODULE Spec2Model ----------------------------
(***************************************************************************)
(* Requirements-management backend of sententia-core: the in-memory        *)
(* requirement store, create / update (with version snapshots) / delete,   *)
(* list, the traceability export and the demo loaders, as implemented in   *)
(* src/requirements_api/app/main.py and src/requirements_api/app/examples  *)
(* over the pydantic models of src/requirements_api/app/schemas.py.        *)
(*                                                                         *)
(* Conventions.  A JSON object (a request payload) is a function whose     *)
(* DOMAIN is the set of keys that are present, so an omitted key is a key  *)
(* outside the DOMAIN.  An Optional value is None (Python None, JSON null) *)
(* or Some(x).  A Python dict that keeps insertion order is a sequence of  *)
(* [key, val] entries.                                                     *)
(***************************************************************************)
EXTENDS Integers, Sequences, FiniteSets, TLC

VARIABLES
    requirements_store,  \* the process-wide dict display_id -> record dict
    now,                 \* the clock read by datetime.utcnow()
    last,                \* the last request served and its response
    updates,             \* history: per stored key, the successful updates
                         \* of the record since it was created
    writes,              \* history: the number of requests that changed the
                         \* store since the initial state
    _counter,            \* the itertools.count(1) of ice_cream_example: the
                         \* next number it hands out
    assigned,            \* history: every display_id a record was ever
                         \* stored under
    inflight             \* the update requests the event loop has received,
                         \* each with done = its handler has run

vars ==
    <<requirements_store, now, last, updates, writes, _counter, assigned,
      inflight>>

-----------------------------------------------------------------------------
(* Bounds of the model *)

\* the store is changed at most this many times
MaxWrites == 3
\* the clock takes the values 0..MaxClock
MaxClock == 1
\* at most this many update requests are received while others are in flight
MaxInflight == 3

-----------------------------------------------------------------------------
(* Optional values and small helpers *)

None == <<>>
Some(x) == <<x>>
IsNone(o) == o = <<>>
Val(o) == o[1]

Range(s) == {s[i] : i \in 1..Len(s)}
Min(a, b) == IF a < b THEN a ELSE b

-----------------------------------------------------------------------------
(* Enumerated vocabulary, in declaration order (schemas.py) *)

RequirementLayer == <<"Business", "System", "Software", "Test">>
RequirementType == <<"Functional", "Non-Functional", "Constraint", "Verification">>
PriorityLevel == <<"Low", "Medium", "High">>
RequirementStatus == <<"Draft", "Approved", "Rejected", "Proposed", "Planned">>
RequirementSource ==
    <<"Stakeholder", "Document", "PreviousSystem", "Regulation",
      "SupportTicket", "ProductOwner", "Developer">>
LinkType == <<"DependsOn", "Satisfies", "Refines", "ConflictsWith">>

-----------------------------------------------------------------------------
(* The Requirement model: validation of a payload and its dict() *)

RequiredFields == {"type", "description", "source", "priority", "status"}

\* Link: target_id is any string, type must be a LinkType
LinkErrors(l) == l.type \notin Range(LinkType)

\* faulty variant: priority declared as a plain str instead of PriorityLevel
FieldErrors_priority_unchecked(p) ==
    {f \in RequiredFields : f \notin DOMAIN p}
    \cup (IF "type" \in DOMAIN p /\ p.type \notin Range(RequirementType)
          THEN {"type"} ELSE {})
    \cup (IF "description" \in DOMAIN p /\ Len(p.description) < 1
          THEN {"description"} ELSE {})
    \cup (IF "source" \in DOMAIN p /\ p.source \notin Range(RequirementSource)
          THEN {"source"} ELSE {})
    \cup (IF "status" \in DOMAIN p /\ p.status \notin Range(RequirementStatus)
          THEN {"status"} ELSE {})
    \cup (IF "layer" \in DOMAIN p /\ ~IsNone(p.layer)
             /\ Val(p.layer) \notin Range(RequirementLayer)
          THEN {"layer"} ELSE {})
    \cup (IF "links" \in DOMAIN p /\ ~IsNone(p.links)
             /\ \E i \in 1..Len(Val(p.links)) : LinkErrors(Val(p.links)[i])
          THEN {"links"} ELSE {})

\* faulty variant: description declared as a plain str, without min_length=1
FieldErrors_no_min_length(p) ==
    {f \in RequiredFields : f \notin DOMAIN p}
    \cup (IF "type" \in DOMAIN p /\ p.type \notin Range(RequirementType)
          THEN {"type"} ELSE {})
    \cup (IF "source" \in DOMAIN p /\ p.source \notin Range(RequirementSource)
          THEN {"source"} ELSE {})
    \cup (IF "priority" \in DOMAIN p /\ p.priority \notin Range(PriorityLevel)
          THEN {"priority"} ELSE {})
    \cup (IF "status" \in DOMAIN p /\ p.status \notin Range(RequirementStatus)
          THEN {"status"} ELSE {})
    \cup (IF "layer" \in DOMAIN p /\ ~IsNone(p.layer)
             /\ Val(p.layer) \notin Range(RequirementLayer)
          THEN {"layer"} ELSE {})
    \cup (IF "links" \in DOMAIN p /\ ~IsNone(p.links)
             /\ \E i \in 1..Len(Val(p.links)) : LinkErrors(Val(p.links)[i])
          THEN {"links"} ELSE {})

\* the fields of payload p that pydantic reports (loc[0] of each error)
FieldErrors(p) ==
    {f \in RequiredFields : f \notin DOMAIN p}
    \cup (IF "type" \in DOMAIN p /\ p.type \notin Range(RequirementType)
          THEN {"type"} ELSE {})
    \cup (IF "description" \in DOMAIN p /\ Len(p.description) < 1
          THEN {"description"} ELSE {})
    \cup (IF "source" \in DOMAIN p /\ p.source \notin Range(RequirementSource)
          THEN {"source"} ELSE {})
    \cup (IF "priority" \in DOMAIN p /\ p.priority \notin Range(PriorityLevel)
          THEN {"priority"} ELSE {})
    \cup (IF "status" \in DOMAIN p /\ p.status \notin Range(RequirementStatus)
          THEN {"status"} ELSE {})
    \cup (IF "layer" \in DOMAIN p /\ ~IsNone(p.layer)
             /\ Val(p.layer) \notin Range(RequirementLayer)
          THEN {"layer"} ELSE {})
    \cup (IF "links" \in DOMAIN p /\ ~IsNone(p.links)
             /\ \E i \in 1..Len(Val(p.links)) : LinkErrors(Val(p.links)[i])
          THEN {"links"} ELSE {})

\* the value of field f of the model built from p: the payload's, or the default
FieldOr(p, f, default) == IF f \in DOMAIN p THEN p[f] ELSE default

\* Requirement(**p).dict() for a payload p that passes validation
RequirementDict(p) ==
    [display_id   |-> FieldOr(p, "display_id", None),
     type         |-> p.type,
     description  |-> p.description,
     source       |-> p.source,
     priority     |-> p.priority,
     status       |-> p.status,
     layer        |-> FieldOr(p, "layer", None),
     rationale    |-> FieldOr(p, "rationale", None),
     verification |-> FieldOr(p, "verification", None),
     versions     |-> FieldOr(p, "versions", Some(<<>>)),
     links        |-> FieldOr(p, "links", Some(<<>>))]

-----------------------------------------------------------------------------
(* The dict requirements_store *)

Keys(store) == {store[i].key : i \in 1..Len(store)}
Has(store, k) == k \in Keys(store)
IndexOf(store, k) == CHOOSE i \in 1..Len(store) : store[i].key = k
Get(store, k) == store[IndexOf(store, k)].val
Values(store) == [i \in 1..Len(store) |-> store[i].val]

\* store[k] = v : an existing key keeps its position, a new key goes last
SetItem(store, k, v) ==
    IF Has(store, k)
    THEN [store EXCEPT ![IndexOf(store, k)] = [key |-> k, val |-> v]]
    ELSE Append(store, [key |-> k, val |-> v])

\* del store[k]
DelItem(store, k) ==
    LET i == IndexOf(store, k)
    IN  SubSeq(store, 1, i - 1) \o SubSeq(store, i + 1, Len(store))

-----------------------------------------------------------------------------
(* Request inputs explored by the model *)

\* str(uuid4())[:8].upper(): eight hexadecimal characters drawn at random
UuidPrefixes == {"0000AAAA", "0000BBBB"}

\* the display_id built by create_requirement from such a prefix
CreateDisplayId(u) == "REQ-" \o u

LinkA == [target_id |-> "REQ-0000AAAA", type |-> "DependsOn"]
LinkB == [target_id |-> "REQ-0000BBBB", type |-> "Refines"]
LinkNotFound == [target_id |-> "REQ-NOTFOUND", type |-> "Satisfies"]
LinkBadType == [target_id |-> "REQ-0000AAAA", type |-> "Blocks"]

\* a snapshot as a client may send it in the versions field; its timestamp is
\* the client's choice, here one that is ahead of the server's clock at start
ClientVersion == [timestamp |-> 1, data |-> [description |-> "Old desc"]]

\* every field given, one link
PayloadFull ==
    [type |-> "Functional", description |-> "A", source |-> "Stakeholder",
     priority |-> "High", status |-> "Draft", layer |-> Some("System"),
     rationale |-> Some("R"), verification |-> Some("V"),
     links |-> Some(<<LinkA>>)]

\* only the required fields, each different from PayloadFull's
PayloadMin ==
    [type |-> "Constraint", description |-> "B", source |-> "Regulation",
     priority |-> "Low", status |-> "Approved"]

\* the server-managed fields sent by the client
PayloadServerFields ==
    [type |-> "Functional", description |-> "A", source |-> "Stakeholder",
     priority |-> "High", status |-> "Draft", layer |-> Some("System"),
     rationale |-> Some("R"), verification |-> Some("V"),
     display_id |-> Some("REQ-API-001"),
     versions |-> Some(<<ClientVersion>>),
     links |-> Some(<<LinkB, LinkNotFound>>)]

\* explicit nulls for the optional fields
PayloadNulls ==
    [type |-> "Functional", description |-> "A", source |-> "Stakeholder",
     priority |-> "High", status |-> "Draft", layer |-> None,
     rationale |-> None, verification |-> None, versions |-> None,
     links |-> None]

ValidPayloads ==
    {PayloadFull, PayloadMin, PayloadServerFields, PayloadNulls}

Without(p, f) == [k \in (DOMAIN p) \ {f} |-> p[k]]

PayloadBadPriority == [PayloadFull EXCEPT !.priority = "Critical"]

\* PayloadFull with one defect each
InvalidPayloads ==
    {Without(PayloadFull, f) : f \in RequiredFields}
    \cup {[PayloadFull EXCEPT !.description = ""],
          [PayloadFull EXCEPT !.type = "INVALID_ENUM_VALUE_XYZ"],
          [PayloadFull EXCEPT !.source = "INVALID_ENUM_VALUE_XYZ"],
          PayloadBadPriority,
          [PayloadFull EXCEPT !.status = "INVALID_ENUM_VALUE_XYZ"],
          [PayloadFull EXCEPT !.layer = Some("INVALID_ENUM_VALUE_XYZ")],
          [PayloadFull EXCEPT !.links = Some(<<LinkA, LinkBadType>>)]}

\* the payloads of the requests of Spec, and of SpecValidation
Payloads == ValidPayloads \cup {PayloadBadPriority}
ValidationPayloads == {PayloadFull} \cup InvalidPayloads

\* the display_id path parameters of update and delete requests
PathIds == {CreateDisplayId(u) : u \in UuidPrefixes} \cup {"REQ-NOTFOUND"}

NoPayload == <<>>
NoRecord == <<>>

\* the response to a request, with the request it answers.  old is the record
\* an update found under the key; again tells that the request before this one
\* was a successful DELETE of the same display_id
Response(op, id, req, status, errors, body, old, again) ==
    [op |-> op, display_id |-> id, req |-> req, status |-> status,
     errors |-> errors, body |-> body, old |-> old, again |-> again]

-----------------------------------------------------------------------------
(* POST /requirements *)

\* new_req = req.dict(); new_req.update({"display_id": display_id})
create_new_req(req, display_id) ==
    [RequirementDict(req) EXCEPT !.display_id = display_id]

\* faulty variant: a link whose target is not a stored record is dropped
create_store_checks_targets(store, req, display_id) ==
    LET new_req == create_new_req(req, display_id)
        links == IF IsNone(new_req.links) THEN <<>> ELSE Val(new_req.links)
        kept == SelectSeq(links, LAMBDA l : Has(store, l.target_id))
    IN  SetItem(store, display_id, [new_req EXCEPT !.links = Some(kept)])

\* requirements_store[display_id] = new_req
create_store(store, req, display_id) ==
    SetItem(store, display_id, create_new_req(req, display_id))

create_requirement(req, u) ==
    /\ now' = now
    /\ UNCHANGED <<_counter, inflight>>
    /\ IF FieldErrors(req) # {}
       THEN /\ UNCHANGED <<requirements_store, updates, writes, assigned>>
            /\ last' = Response("create", "", req, 422, FieldErrors(req),
                                <<>>, NoRecord, FALSE)
       ELSE LET display_id == CreateDisplayId(u)
            IN  /\ writes < MaxWrites
                /\ writes' = writes + 1
                /\ assigned' = assigned \cup {display_id}
                /\ requirements_store' =
                       create_store(requirements_store, req, display_id)
                /\ updates' =
                       [k \in Keys(requirements_store) \cup {display_id} |->
                           IF k = display_id THEN 0 ELSE updates[k]]
                /\ last' = Response("create", display_id, req, 200, {},
                                    create_new_req(req, display_id),
                                    NoRecord, FALSE)

-----------------------------------------------------------------------------
(* PUT /requirements/{display_id} *)

\* the RequirementVersion built from the record being replaced
update_version(old_req, t) ==
    [timestamp |-> t,
     data |-> [type         |-> old_req.type,
               description  |-> old_req.description,
               rationale    |-> old_req.rationale,
               source       |-> old_req.source,
               priority     |-> old_req.priority,
               status       |-> old_req.status,
               verification |-> old_req.verification]]

\* faulty variant: the history is started afresh on every update
update_old_versions_reset(old_req) == Some(<<>>)

\* old_req["versions"] after `if "versions" not in old_req: old_req["versions"] = []`
update_old_versions(old_req) ==
    IF "versions" \notin DOMAIN old_req THEN Some(<<>>) ELSE old_req.versions

\* old_req["versions"] + [version.dict()] raises TypeError when the left side is None
update_raises(old_req) == IsNone(update_old_versions(old_req))

\* faulty variant: the snapshot is taken from the replacement instead of the old record
update_updated_req_snapshots_new(old_req, req, display_id, t) ==
    [RequirementDict(req) EXCEPT
        !.display_id = display_id,
        !.versions = Some(Val(update_old_versions(old_req))
                          \o <<update_version(RequirementDict(req), t)>>)]

\* faulty variant: a partial patch, an omitted optional field keeps its old value
update_updated_req_patch(old_req, req, display_id, t) ==
    [RequirementDict(req) EXCEPT
        !.display_id = display_id,
        !.layer = FieldOr(req, "layer", old_req.layer),
        !.rationale = FieldOr(req, "rationale", old_req.rationale),
        !.verification = FieldOr(req, "verification", old_req.verification),
        !.links = FieldOr(req, "links", old_req.links),
        !.versions = Some(Val(update_old_versions(old_req))
                          \o <<update_version(old_req, t)>>)]

\* faulty variant: the display_id of the payload, when it carries one, is kept
update_updated_req_payload_id(old_req, req, display_id, t) ==
    [RequirementDict(req) EXCEPT
        !.display_id = IF IsNone(@) THEN display_id ELSE Val(@),
        !.versions = Some(Val(update_old_versions(old_req))
                          \o <<update_version(old_req, t)>>)]

\* updated_req as stored: req.dict() with the path's display_id and the history
update_updated_req(old_req, req, display_id, t) ==
    [RequirementDict(req) EXCEPT
        !.display_id = display_id,
        !.versions = Some(Val(update_old_versions(old_req))
                          \o <<update_version(old_req, t)>>)]

\* faulty variant: the lookup is a step of its own, taken when the request is
\* received: the handler works on the record that was stored then
update_old_req_stale(store, display_id) ==
    LET waiting == {r \in inflight : /\ ~r.done
                                     /\ r.display_id = display_id
                                     /\ ~IsNone(r.seen)}
    IN  IF waiting = {} THEN Get(store, display_id)
        ELSE Val((CHOOSE r \in waiting : \A q \in waiting : r.n <= q.n).seen)

\* old_req = requirements_store[display_id].copy()
update_old_req(store, display_id) == Get(store, display_id)

\* faulty variant: no membership test, so an absent key raises KeyError
update_status_no_check(store, display_id) ==
    IF ~Has(store, display_id) THEN 500
    ELSE IF update_raises(Get(store, display_id)) THEN 500
    ELSE 200

\* the status of the handler's response
update_status(store, display_id) ==
    IF ~Has(store, display_id) THEN 404
    ELSE IF update_raises(Get(store, display_id)) THEN 500
    ELSE 200

\* faulty variant: the stored dict is mutated in place, field by field, and the
\* entry is the one a reader finds after the first two assignments
update_store_in_place(store, display_id, req, t) ==
    IF update_status(store, display_id) = 200
    THEN SetItem(store, display_id,
                 [update_old_req(store, display_id) EXCEPT
                     !.type = req.type, !.description = req.description])
    ELSE store

\* faulty variant: the map is rebound to one that holds the updated record only
update_store_replaces_map(store, display_id, req, t) ==
    IF update_status(store, display_id) = 200
    THEN <<[key |-> display_id,
            val |-> update_updated_req(update_old_req(store, display_id), req,
                                       display_id, t)]>>
    ELSE store

\* the store the handler leaves
update_store(store, display_id, req, t) ==
    IF update_status(store, display_id) = 200
    THEN SetItem(store, display_id,
                 update_updated_req(update_old_req(store, display_id), req,
                                    display_id, t))
    ELSE store

\* the handler; the caller says what becomes of inflight
update_requirement(display_id, req, t) ==
    IF FieldErrors(req) # {}
    THEN /\ UNCHANGED <<requirements_store, now, updates, writes, _counter,
                        assigned>>
         /\ last' = Response("update", display_id, req, 422,
                             FieldErrors(req), <<>>, NoRecord, FALSE)
    ELSE LET status == update_status(requirements_store, display_id)
             store == update_store(requirements_store, display_id, req, t)
             old_req == IF Has(requirements_store, display_id)
                        THEN update_old_req(requirements_store, display_id)
                        ELSE NoRecord
         IN  /\ requirements_store' = store
             /\ UNCHANGED <<_counter, assigned>>
             \* utcnow() is read once the record is found
             /\ now' = IF status = 404 THEN now ELSE t
             /\ IF status = 200
                THEN /\ writes < MaxWrites
                     /\ writes' = writes + 1
                     /\ updates' = [updates EXCEPT ![display_id] = @ + 1]
                     /\ last' = Response("update", display_id, req, 200, {},
                                         Get(store, display_id), old_req,
                                         FALSE)
                ELSE /\ UNCHANGED <<updates, writes>>
                     /\ last' = Response("update", display_id, req, status,
                                         {}, <<>>, old_req, FALSE)

-----------------------------------------------------------------------------
(* DELETE /requirements/{display_id} *)

\* faulty variant: an idempotent delete, requirements_store.pop(display_id, None)
delete_status_idempotent(store, display_id) == 200

delete_status(store, display_id) ==
    IF ~Has(store, display_id) THEN 404 ELSE 200

\* del requirements_store[display_id], when the key is there
delete_store(store, display_id) ==
    IF ~Has(store, display_id) THEN store ELSE DelItem(store, display_id)

delete_requirement(display_id) ==
    LET status == delete_status(requirements_store, display_id)
        store == delete_store(requirements_store, display_id)
        again == /\ last.op = "delete"
                 /\ last.status = 200
                 /\ last.display_id = display_id
    IN  /\ now' = now
        /\ UNCHANGED <<_counter, assigned, inflight>>
        /\ requirements_store' = store
        /\ last' = Response("delete", display_id, NoPayload, status, {},
                            <<>>, NoRecord, again)
        /\ updates' = [k \in Keys(store) |-> updates[k]]
        /\ IF store # requirements_store
           THEN writes < MaxWrites /\ writes' = writes + 1
           ELSE writes' = writes

-----------------------------------------------------------------------------
(* GET /requirements *)

get_requirements ==
    /\ UNCHANGED <<requirements_store, now, updates, writes, _counter,
                   assigned, inflight>>
    /\ last' = Response("list", "", NoPayload, 200, {},
                        Values(requirements_store), NoRecord, FALSE)

-----------------------------------------------------------------------------
(* GET /export/traceability *)

ExportHeader == <<"Source Requirement", "Link Type", "Target Requirement">>

\* req.get("links", []) of a stored dict
export_links(req) == IF "links" \in DOMAIN req THEN req.links ELSE Some(<<>>)

\* `for link in None` raises TypeError
export_raises(store) ==
    \E i \in 1..Len(store) : IsNone(export_links(store[i].val))

\* the rows written for one record
export_req_rows(req) ==
    LET links == Val(export_links(req))
    IN  [i \in 1..Len(links) |->
            <<req.display_id, links[i].type, links[i].target_id>>]

RECURSIVE export_rows(_)
\* the rows written for the records vals, in order
export_rows(vals) ==
    IF vals = <<>> THEN <<>>
    ELSE export_req_rows(Head(vals)) \o export_rows(Tail(vals))

\* the CSV body: the header row, then one row per link
export_csv(store) == <<ExportHeader>> \o export_rows(Values(store))

export_traceability ==
    /\ UNCHANGED <<requirements_store, now, updates, writes, _counter,
                   assigned, inflight>>
    /\ IF export_raises(requirements_store)
       THEN last' = Response("export", "", NoPayload, 500, {}, <<>>,
                             NoRecord, FALSE)
       ELSE last' = Response("export", "", NoPayload, 200, {},
                             export_csv(requirements_store), NoRecord, FALSE)

-----------------------------------------------------------------------------
(* POST /load-demo/{demo_name} and the two example loaders *)

\* Link(target_id=..., type=...)
Link(target_id, type) == [target_id |-> target_id, type |-> type]

\* f"{n:03d}"
Pad3(n) ==
    IF n < 10 THEN "00" \o ToString(n)
    ELSE IF n < 100 THEN "0" \o ToString(n)
    ELSE ToString(n)

\* faulty variant: the numbering starts again with every call
_id_restarts(prefix, n) == prefix \o "-" \o Pad3(1)

\* _id(prefix) when next(_counter) hands out n
_id(prefix, n) == prefix \o "-" \o Pad3(n)

\* faulty variant: the loader leaves out requirements_store.clear()
load_clear_skipped(store) == store

\* requirements_store.clear()
load_clear(store) == <<>>

\* The Requirement objects create_ice_cream_example builds when the counter
\* stands at n, in the order they are built, and those it persists, in the
\* order of the final loop.  A character of the source's texts outside ASCII
\* is written in ASCII and a backquote as a quote; the title keyword is not a
\* field of the model and is dropped by it.
ice_cream_requirements(n) ==
    LET
        bus_online_orders ==
            [display_id   |-> Some(_id("BUS", n)),
             layer        |-> Some("Business"),
             type         |-> "Functional",
             description  |-> "Allow customers to order ice-cream online from any device.",
             rationale    |-> Some("Capture digital revenue and improve customer convenience."),
             source       |-> "Stakeholder",
             priority     |-> "High",
             status       |-> "Approved"]
        bus_loyalty ==
            [display_id   |-> Some(_id("BUS", n + 1)),
             layer        |-> Some("Business"),
             type         |-> "Functional",
             description  |-> "Introduce a loyalty points program redeemable online or in-store.",
             rationale    |-> Some("Increase repeat purchases by 15 % within one year."),
             source       |-> "ProductOwner",
             priority     |-> "Medium",
             status       |-> "Approved"]
        bus_food_safety ==
            [display_id   |-> Some(_id("BUS", n + 2)),
             layer        |-> Some("Business"),
             type         |-> "Constraint",
             description  |-> "Comply with FDA Food Code par. 3-501 on dairy handling.",
             rationale    |-> Some("Legal compliance - avoid fines & licence suspension."),
             source       |-> "Regulation",
             priority     |-> "High",
             status       |-> "Approved"]
        sys_user_interface ==
            [display_id   |-> Some(_id("SYS", n + 3)),
             layer        |-> Some("System"),
             type         |-> "Functional",
             description  |-> "Create an intuitive, responsive interface for online ordering.",
             rationale    |-> Some("Ensure ease of use for customers across different devices."),
             source       |-> "Stakeholder",
             priority     |-> "High",
             status       |-> "Draft"]
        sys_payment_integration ==
            [display_id   |-> Some(_id("SYS", n + 4)),
             layer        |-> Some("System"),
             type         |-> "Functional",
             description  |-> "Support multiple payment methods securely.",
             rationale    |-> Some("Provide flexible payment options for customers."),
             source       |-> "ProductOwner",
             priority     |-> "High",
             status       |-> "Draft"]
        sys_concurrency ==
            [display_id   |-> Some(_id("SYS", n + 5)),
             layer        |-> Some("System"),
             type         |-> "Non-Functional",
             description  |-> "Support >= 2 000 concurrent sessions with < 2 s p95 response time.",
             rationale    |-> Some("Handle summer promo spikes 4x larger than baseline."),
             source       |-> "Document",
             priority     |-> "High",
             status       |-> "Proposed",
             links        |-> Some(<<Link(Val(bus_online_orders.display_id), "Satisfies")>>)]
        sys_pci ==
            [display_id   |-> Some(_id("SYS", n + 6)),
             layer        |-> Some("System"),
             type         |-> "Constraint",
             description  |-> "All payment processing components shall be PCI-DSS v4.0 compliant.",
             rationale    |-> Some("Protect cardholder data & enable external audit."),
             source       |-> "Regulation",
             priority     |-> "High",
             status       |-> "Approved",
             links        |-> Some(<<Link(Val(bus_online_orders.display_id), "DependsOn")>>)]
        sys_loyalty_service ==
            [display_id   |-> Some(_id("SYS", n + 7)),
             layer        |-> Some("System"),
             type         |-> "Functional",
             description  |-> "Provide a loyalty-points micro-service with REST + Webhooks.",
             rationale    |-> Some("Centralise points logic for web & POS channels."),
             source       |-> "ProductOwner",
             priority     |-> "Medium",
             status       |-> "Proposed",
             links        |-> Some(<<Link(Val(bus_loyalty.display_id), "Satisfies")>>)]
        sw_cart ==
            [display_id   |-> Some(_id("SWS", n + 8)),
             layer        |-> Some("Software"),
             type         |-> "Functional",
             description  |-> "Implement a Vue 3 cart component supporting flavour mix-ins & toppings.",
             rationale    |-> Some("Smooth UX on mobile; reuse component in kiosk app."),
             source       |-> "Document",
             priority     |-> "Medium",
             status       |-> "Draft",
             links        |-> Some(<<Link(Val(sys_concurrency.display_id), "DependsOn"),
                                 Link(Val(bus_online_orders.display_id), "Refines")>>)]
        sw_loyalty_api ==
            [display_id   |-> Some(_id("SWS", n + 9)),
             layer        |-> Some("Software"),
             type         |-> "Functional",
             description  |-> "Expose '/points/balance' & '/points/redeem' endpoints (JSON, OAuth2).",
             rationale    |-> Some("Integrate loyalty with website and mobile-app checkout."),
             source       |-> "Developer",
             priority     |-> "Medium",
             status       |-> "Draft",
             links        |-> Some(<<Link(Val(sys_loyalty_service.display_id), "Satisfies")>>)]
        sw_temp_monitor ==
            [display_id   |-> Some(_id("SWS", n + 10)),
             layer        |-> Some("Software"),
             type         |-> "Functional",
             description  |-> "Store freezer temperature logs every 10 min in immutable storage.",
             rationale    |-> Some("Evidence for FDA audits & food-safety analytics."),
             source       |-> "Regulation",
             priority     |-> "High",
             status       |-> "Draft",
             links        |-> Some(<<Link(Val(bus_food_safety.display_id), "Satisfies")>>)]
        tst_cart_mixins ==
            [display_id   |-> Some(_id("TST", n + 11)),
             layer        |-> Some("Test"),
             type         |-> "Verification",
             description  |-> "Automated test: submit an order with >= 3 mix-ins and verify total price.",
             rationale    |-> Some("Detect price-calculation regressions."),
             source       |-> "Developer",
             priority     |-> "Low",
             status       |-> "Planned",
             verification |-> Some("Pytest + Playwright"),
             links        |-> Some(<<Link(Val(sw_cart.display_id), "DependsOn")>>)]
        tst_loyalty_accrual ==
            [display_id   |-> Some(_id("TST", n + 12)),
             layer        |-> Some("Test"),
             type         |-> "Verification",
             description  |-> "API test: after purchase, customer balance increases by earned points.",
             rationale    |-> Some("Guarantee loyalty rules consistency."),
             source       |-> "Developer",
             priority     |-> "Low",
             status       |-> "Planned",
             verification |-> Some("Postman/Newman"),
             links        |-> Some(<<Link(Val(sw_loyalty_api.display_id), "DependsOn")>>)]
        tst_performance ==
            [display_id   |-> Some(_id("TST", n + 13)),
             layer        |-> Some("Test"),
             type         |-> "Verification",
             description  |-> "Load-test checkout for 2 000 virtual users, p95 < 2 s.",
             rationale    |-> Some("Prove non-functional performance target."),
             source       |-> "SupportTicket",
             priority     |-> "Medium",
             status       |-> "Planned",
             verification |-> Some("k6 cloud test"),
             links        |-> Some(<<Link(Val(sys_concurrency.display_id), "Satisfies")>>)]
        tst_temp_monitor ==
            [display_id   |-> Some(_id("TST", n + 14)),
             layer        |-> Some("Test"),
             type         |-> "Verification",
             description  |-> "Unit test: temperature log rejected if older than 15 min.",
             rationale    |-> Some("Ensure data integrity for FDA audit trail."),
             source       |-> "Developer",
             priority     |-> "Low",
             status       |-> "Planned",
             verification |-> Some("Pytest"),
             links        |-> Some(<<Link(Val(sw_temp_monitor.display_id), "DependsOn")>>)]
    IN  [built |->
            <<bus_online_orders,
              bus_loyalty,
              bus_food_safety,
              sys_user_interface,
              sys_payment_integration,
              sys_concurrency,
              sys_pci,
              sys_loyalty_service,
              sw_cart,
              sw_loyalty_api,
              sw_temp_monitor,
              tst_cart_mixins,
              tst_loyalty_accrual,
              tst_performance,
              tst_temp_monitor>>,
         persisted |->
            <<bus_online_orders,
              bus_loyalty,
              bus_food_safety,
              sys_concurrency,
              sys_pci,
              sys_loyalty_service,
              sw_cart,
              sw_loyalty_api,
              sw_temp_monitor,
              tst_cart_mixins,
              tst_loyalty_accrual,
              tst_performance,
              tst_temp_monitor>>]

\* req.dict() of a Requirement built with its display_id
ice_cream_dict(req) == [RequirementDict(req) EXCEPT !.display_id = Val(@)]

RECURSIVE ice_cream_persist(_, _)
\* for req in [...]: requirements_store[req.display_id] = req.dict()
ice_cream_persist(store, reqs) ==
    IF reqs = <<>> THEN store
    ELSE ice_cream_persist(
             SetItem(store, Val(Head(reqs).display_id),
                     ice_cream_dict(Head(reqs))),
             Tail(reqs))

\* the store create_ice_cream_example leaves
create_ice_cream_example(store, n) ==
    ice_cream_persist(load_clear(store), ice_cream_requirements(n).persisted)

\* the Requirement objects of create_death_star_example
example_data ==
    <<
    [layer        |-> Some("Business"),
     type         |-> "Functional",
     description  |-> "The Galactic Empire shall construct a mobile battle station capable of planetary destruction to ensure galactic stability and suppress rebellion.",
     rationale    |-> Some("Maintain control and deter insurgency across the galaxy."),
     source       |-> "Stakeholder",
     priority     |-> "High",
     status       |-> "Approved",
     verification |-> Some("Imperial Charter"),
     versions     |-> Some(<<>>),
     links        |-> Some(<<>>)],
    [layer        |-> Some("System"),
     type         |-> "Functional",
     description  |-> "The battle station must possess a superlaser with sufficient power to destroy a planet of size comparable to Alderaan with a single focused blast.",
     rationale    |-> Some("Demonstrate overwhelming firepower and eliminate key rebel strongholds."),
     source       |-> "Document",
     priority     |-> "High",
     status       |-> "Approved",
     verification |-> Some("Successful test firing (e.g., Jedha, Scarif)"),
     versions     |-> Some(<<>>),
     links        |-> Some(<<>>)],
    [layer        |-> Some("System"),
     type         |-> "Functional",
     description  |-> "The battle station must be equipped with a Class 1 hyperdrive system allowing for rapid interstellar travel between key systems within the Empire.",
     rationale    |-> Some("Enable swift deployment to any sector requiring Imperial presence."),
     source       |-> "Document",
     priority     |-> "High",
     status       |-> "Approved",
     verification |-> Some("Interstellar jump completion within specified timeframes"),
     versions     |-> Some(<<>>),
     links        |-> Some(<<>>)],
    [layer        |-> Some("System"),
     type         |-> "Functional",
     description  |-> "The battle station shall be defended by a minimum of 10,000 Taim & Bak XX-9 heavy turbolaser emplacements and 2,500 Borstel NK-7 ion cannons.",
     rationale    |-> Some("Provide comprehensive defense against capital ship and starfighter assaults."),
     source       |-> "Document",
     priority     |-> "High",
     status       |-> "Approved",
     verification |-> Some("Combat simulation and live-fire exercises"),
     versions     |-> Some(<<>>),
     links        |-> Some(<<>>)],
    [layer        |-> Some("System"),
     type         |-> "Non-Functional",
     description  |-> "The superlaser must achieve full operational charge from a depleted state within 12 standard hours.",
     rationale    |-> Some("Ensure rapid re-engagement capability during prolonged operations."),
     source       |-> "Document",
     priority     |-> "High",
     status       |-> "Approved",
     verification |-> Some("Power cycle testing under various load conditions"),
     versions     |-> Some(<<>>),
     links        |-> Some(<<>>)],
    [layer        |-> Some("Software"),
     type         |-> "Functional",
     description  |-> "The superlaser targeting software must provide accuracy to within 0.0001% of the designated planetary target coordinates at maximum range.",
     rationale    |-> Some("Ensure precise destruction and minimize collateral damage to non-target celestial bodies (if any)."),
     source       |-> "Document",
     priority     |-> "High",
     status       |-> "Approved",
     verification |-> Some("Simulation, calibration routines, and post-firing analysis"),
     versions     |-> Some(<<>>),
     links        |-> Some(<<>>)],
    [layer        |-> Some("Software"),
     type         |-> "Non-Functional",
     description  |-> "Primary flight and weapons control interfaces shall provide intuitive feedback and require no more than 3 actions to execute critical functions (e.g., initiate jump, fire weapon).",
     rationale    |-> Some("Reduce operator error and improve response times during high-stress situations."),
     source       |-> "Document",
     priority     |-> "Medium",
     status       |-> "Proposed",
     verification |-> Some("User acceptance testing with bridge simulator"),
     versions     |-> Some(<<>>),
     links        |-> Some(<<>>)],
    [layer        |-> Some("Test"),
     type         |-> "Verification",
     description  |-> "A full-scale destructive test of the superlaser must be conducted on an uninhabited terrestrial planet prior to full operational deployment.",
     rationale    |-> Some("Validate end-to-end system functionality and destructive capability."),
     source       |-> "Document",
     priority     |-> "High",
     status       |-> "Planned",
     verification |-> Some("Successful planetary destruction and system telemetry review"),
     versions     |-> Some(<<>>),
     links        |-> Some(<<>>)],
    [layer        |-> Some("System"),
     type         |-> "Non-Functional",
     description  |-> "All thermal exhaust ports leading to the main reactor must be shielded and no larger than 2 meters in diameter to prevent single-starfighter-exploitable vulnerabilities.",
     rationale    |-> Some("Protect the station's primary power source from targeted attacks."),
     source       |-> "Document",
     priority     |-> "High",
     status       |-> "Draft",
     verification |-> Some("Design inspection and threat modeling"),
     versions     |-> Some(<<>>),
     links        |-> Some(<<>>)]
    >>

\* str(uuid.uuid4())[:6].upper(): six hexadecimal characters drawn at random,
\* one draw per example record.  The draws of one load: all distinct, or the
\* last draw repeating the first
DeathStarDraws ==
    {<<"0000A1", "0000A2", "0000A3", "0000A4", "0000A5", "0000A6", "0000A7",
       "0000A8", "0000A9">>,
     <<"0000A1", "0000A2", "0000A3", "0000A4", "0000A5", "0000A6", "0000A7",
       "0000A8", "0000A1">>}

\* f"REQ-DS-{str(uuid.uuid4())[:6].upper()}"
DeathStarDisplayId(u) == "REQ-DS-" \o u

RECURSIVE death_star_persist(_, _, _)
\* for req_model in example_data: ... requirements_store[display_id] = req_dict
death_star_persist(store, reqs, draws) ==
    IF reqs = <<>> THEN store
    ELSE LET display_id == DeathStarDisplayId(Head(draws))
             req_dict == [RequirementDict(Head(reqs)) EXCEPT
                             !.display_id = display_id]
         IN  death_star_persist(SetItem(store, display_id, req_dict),
                                Tail(reqs), Tail(draws))

\* the store create_death_star_example leaves
create_death_star_example(store, draws) ==
    death_star_persist(load_clear(store), example_data, draws)

DemoNames == {"ice_cream", "death_star", "unknown"}

\* faulty variant: the store is cleared before the name is looked at
load_store_clears_first(store, demo_name, n, draws) ==
    IF demo_name = "ice_cream" THEN create_ice_cream_example(store, n)
    ELSE IF demo_name = "death_star"
    THEN create_death_star_example(store, draws)
    ELSE load_clear(store)

\* the store the handler leaves
load_store(store, demo_name, n, draws) ==
    IF demo_name = "ice_cream" THEN create_ice_cream_example(store, n)
    ELSE IF demo_name = "death_star"
    THEN create_death_star_example(store, draws)
    ELSE store

\* the status of the handler's response
load_status(demo_name) ==
    IF demo_name \in {"ice_cream", "death_star"} THEN 200 ELSE 404

load_demo_data(demo_name, draws) ==
    /\ now' = now
    /\ UNCHANGED inflight
    /\ requirements_store' =
           load_store(requirements_store, demo_name, _counter, draws)
    /\ IF load_status(demo_name) = 200
       THEN LET store == load_store(requirements_store, demo_name, _counter,
                                    draws)
            IN  /\ writes < MaxWrites
                /\ writes' = writes + 1
                \* one next(_counter) per Requirement the ice cream loader builds
                /\ _counter' =
                       IF demo_name = "ice_cream"
                       THEN _counter + Len(ice_cream_requirements(_counter).built)
                       ELSE _counter
                /\ updates' = [k \in Keys(store) |-> 0]
                /\ assigned' = assigned \cup Keys(store)
                /\ last' = Response("load", demo_name, NoPayload, 200, {},
                                    [message |-> "loaded"], NoRecord, FALSE)
       ELSE /\ UNCHANGED <<updates, writes, _counter, assigned>>
            /\ last' = Response("load", demo_name, NoPayload, 404, {}, <<>>,
                                NoRecord, FALSE)

-----------------------------------------------------------------------------
(* A POST to a path the application has no route for *)

\* the path the ice cream test posts to; its router is not included in app
UnroutedPaths == {"/load-icecream-example"}

\* the framework answers 404 Not Found and no handler runs
no_route(path) ==
    /\ UNCHANGED <<requirements_store, now, updates, writes, _counter,
                   assigned, inflight>>
    /\ last' = Response("post", path, NoPayload, 404, {}, <<>>, NoRecord,
                        FALSE)

-----------------------------------------------------------------------------
(* Requests in flight.  The handlers are coroutines (async def) that never  *)
(* await: the event loop runs the body of a handler from its first line to  *)
(* its return before it turns to another request, so a handler is one step. *)
(* Requests that arrive together wait for their turn in inflight.           *)

\* the event loop receives PUT /requirements/{display_id} and schedules its
\* handler; seen is the record that is stored under display_id at that time
receive_update(display_id, req) ==
    /\ Cardinality(inflight) < MaxInflight
    /\ inflight' = inflight \cup
           {[n          |-> Cardinality(inflight) + 1,
             display_id |-> display_id,
             req        |-> req,
             seen       |-> IF Has(requirements_store, display_id)
                            THEN Some(Get(requirements_store, display_id))
                            ELSE None,
             done       |-> FALSE,
             status     |-> 0]}
    /\ UNCHANGED <<requirements_store, now, last, updates, writes, _counter,
                   assigned>>

\* the event loop runs the handler of the received request r
serve_update(r, t) ==
    /\ r \in inflight
    /\ ~r.done
    /\ update_requirement(r.display_id, r.req, t)
    /\ inflight' = (inflight \ {r})
                       \cup {[r EXCEPT !.done = TRUE, !.status = last'.status]}

-----------------------------------------------------------------------------
(* GET /metadata/{layers,types,priority,source,status} *)

MetadataFields == {"layers", "types", "priority", "source", "status"}

\* faulty variant: [e.name for e in ...], the member names instead of the values
metadata_names(field) ==
    CASE field = "layers" -> <<"business", "system", "software", "test">>
      [] field = "types" ->
             <<"functional", "non_functional", "constraint", "verification">>
      [] field = "priority" -> <<"low", "medium", "high">>
      [] field = "source" ->
             <<"stakeholder", "document", "previous_system", "regulation",
               "support_ticket", "product_owner", "developer">>
      [] field = "status" ->
             <<"draft", "approved", "rejected", "proposed", "planned">>

\* [e.value for e in ...]: the values of the enum, in declaration order
metadata_values(field) ==
    CASE field = "layers" -> RequirementLayer
      [] field = "types" -> RequirementType
      [] field = "priority" -> PriorityLevel
      [] field = "source" -> RequirementSource
      [] field = "status" -> RequirementStatus

get_metadata(field) ==
    /\ UNCHANGED <<requirements_store, now, updates, writes, _counter,
                   assigned, inflight>>
    /\ last' = Response("metadata", field, NoPayload, 200, {},
                        metadata_values(field), NoRecord, FALSE)

-----------------------------------------------------------------------------
(* The Streamlit UI: the edit form and the approve / reject buttons, which  *)
(* read a record with GET /requirements and write it back with PUT          *)

\* link_types of the edit form
UiLinkTypes == <<"DependsOn", "Satisfies", "Refines">>

\* the form cannot be drawn: enumerate(None) for null links raises TypeError,
\* link_types.index(link["type"]) raises ValueError for a type it does not offer
edit_form_raises(req) ==
    \/ IsNone(req.links)
    \/ \E i \in 1..Len(Val(req.links)) :
           Val(req.links)[i].type \notin Range(UiLinkTypes)

\* available_target_ids: the display_ids of the other records
available_target_ids(req, all_requirements) ==
    {all_requirements[i].display_id : i \in 1..Len(all_requirements)}
        \ {req.display_id}

\* updated_links when no widget is touched: a row whose target is not among
\* the available ids shows "None" and is left out
updated_links(req, all_requirements) ==
    SelectSeq(Val(req.links),
              LAMBDA link :
                  link.target_id \in available_target_ids(req, all_requirements))

\* updated_req of the edit form when no widget is touched: each widget returns
\* the value it was given; there is no widget for layer
edit_form_payload(req, all_requirements) ==
    [type         |-> req.type,
     description  |-> req.description,
     rationale    |-> req.rationale,
     source       |-> req.source,
     priority     |-> req.priority,
     status       |-> req.status,
     verification |-> req.verification,
     links        |-> Some(updated_links(req, all_requirements))]

\* Save Changes on the edit form of the stored record display_id
edit_requirement_ui(display_id, t) ==
    /\ Has(requirements_store, display_id)
    /\ LET req == Get(requirements_store, display_id)
       IN  /\ ~edit_form_raises(req)
           \* validate_fields
           /\ req.description # ""
           /\ update_requirement(display_id,
                                 edit_form_payload(
                                     req, Values(requirements_store)),
                                 t)
    /\ UNCHANGED inflight

\* req["status"] = status; update_requirement(req["display_id"], req): the
\* record as listed goes back as the payload
approve_payload(req, status) ==
    [req EXCEPT !.status = status, !.display_id = Some(@)]

\* Approve or Reject on a draft
validate_and_approve(display_id, status, t) ==
    /\ Has(requirements_store, display_id)
    /\ LET req == Get(requirements_store, display_id)
       IN  /\ req.status = "Draft"
           /\ update_requirement(display_id, approve_payload(req, status), t)
    /\ UNCHANGED inflight

-----------------------------------------------------------------------------
(* The specifications *)

Init ==
    /\ requirements_store = <<>>
    /\ now = 0
    /\ last = Response("init", "", NoPayload, 200, {}, <<>>, NoRecord, FALSE)
    /\ updates = <<>>
    /\ writes = 0
    /\ _counter = 1
    /\ assigned = {}
    /\ inflight = {}

\* the requests, with payloads drawn from P and uuid prefixes from U
Requests(P, U) ==
    \/ \E req \in P, u \in U : create_requirement(req, u)
    \/ \E id \in PathIds, req \in P, t \in now..Min(now + 1, MaxClock) :
           update_requirement(id, req, t) /\ UNCHANGED inflight
    \/ \E id \in PathIds : delete_requirement(id)
    \/ get_requirements
    \/ export_traceability

Next == Requests(Payloads, UuidPrefixes)

Spec == Init /\ [][Next]_vars

NextValidation == Requests(ValidationPayloads, UuidPrefixes)

\* the same server, its clients sending every kind of malformed payload
SpecValidation == Init /\ [][NextValidation]_vars

\* the demo loads, and the POST of the ice cream test
DemoRequests ==
    \/ \E demo_name \in DemoNames, draws \in DeathStarDraws :
           load_demo_data(demo_name, draws)
    \/ \E path \in UnroutedPaths : no_route(path)

PayloadEmptyDescription == [PayloadFull EXCEPT !.description = ""]

DemoPayloads ==
    {PayloadFull, PayloadServerFields, PayloadBadPriority,
     PayloadEmptyDescription}

NextDemo == Requests(DemoPayloads, UuidPrefixes) \/ DemoRequests

\* the server with the demo loaders in use
SpecDemo == Init /\ [][NextDemo]_vars

\* a third uuid prefix, for runs that need three records
DanglingUuids == UuidPrefixes \cup {"0000CCCC"}
DanglingPayloads == {PayloadFull, PayloadNulls}

\* the state after POST PayloadMin (stored as REQ-0000AAAA) and POST PayloadFull
\* (stored as REQ-0000BBBB, with its link to REQ-0000AAAA)
InitDangling ==
    /\ requirements_store =
           create_store(create_store(<<>>, PayloadMin, "REQ-0000AAAA"),
                        PayloadFull, "REQ-0000BBBB")
    /\ now = 0
    /\ last = Response("create", "REQ-0000BBBB", PayloadFull, 200, {},
                       create_new_req(PayloadFull, "REQ-0000BBBB"),
                       NoRecord, FALSE)
    /\ updates = [k \in {"REQ-0000AAAA", "REQ-0000BBBB"} |-> 0]
    /\ writes = 0
    /\ _counter = 1
    /\ assigned = {"REQ-0000AAAA", "REQ-0000BBBB"}
    /\ inflight = {}

NextDangling == Requests(DanglingPayloads, DanglingUuids)

\* the server with a linked pair of records stored, and three uuid prefixes
SpecDangling == InitDangling /\ [][NextDangling]_vars

UiPayloads == {PayloadFull, PayloadMin}

NextUI ==
    \/ \E req \in UiPayloads, u \in UuidPrefixes : create_requirement(req, u)
    \/ \E id \in PathIds, t \in now..Min(now + 1, MaxClock) :
           edit_requirement_ui(id, t)
    \/ \E id \in PathIds, status \in {"Approved", "Rejected"},
          t \in now..Min(now + 1, MaxClock) :
           validate_and_approve(id, status, t)
    \/ \E field \in MetadataFields : get_metadata(field)
    \/ get_requirements

\* the server behind the UI: records are created, then edited, approved and
\* rejected through the UI, which reads the vocabularies from the metadata
SpecUI == Init /\ [][NextUI]_vars

ConcurrentPayloads == {PayloadFull, PayloadMin}

NextConcurrent ==
    \/ \E id \in PathIds, req \in ConcurrentPayloads : receive_update(id, req)
    \/ \E r \in inflight, t \in now..Min(now + 1, MaxClock) : serve_update(r, t)
    \/ get_requirements

\* the server with two records stored, its clients sending updates that are
\* in flight together
SpecConcurrent == InitDangling /\ [][NextConcurrent]_vars

-----------------------------------------------------------------------------
(* Properties *)

SnapshotFields ==
    {"type", "description", "rationale", "source", "priority", "status",
     "verification"}

LastOf(seq) == seq[Len(seq)]

\* the last request was op and was answered with status
Served(op, status) == last.op = op /\ last.status = status

\* C1: a successful create never overwrites a record that is already stored:
\* it adds exactly one record, under a display_id no stored record has, so
\* that N creates leave N records with pairwise distinct display_ids.
C1_CreateNeverOverwrites ==
    [][(last'.op = "create" /\ last'.status = 200) =>
          /\ ~Has(requirements_store, last'.display_id)
          /\ Len(requirements_store') = Len(requirements_store) + 1]_vars

\* C2: every stored record holds exactly as many snapshots as the number of
\* successful updates it has had since it was created.
C2_VersionsLengthIsUpdateCount ==
    \A i \in 1..Len(requirements_store) :
        LET r == requirements_store[i].val
        IN  /\ ~IsNone(r.versions)
            /\ Len(Val(r.versions)) = updates[requirements_store[i].key]

\* C3: the snapshot appended by a successful update holds the seven
\* classification values the stored record had just before the update, and a
\* newly supplied value that differs from the old one is not in it.
C3_SnapshotIsPreUpdateState ==
    [][(last'.op = "update" /\ last'.status = 200) =>
          LET id == last'.display_id
              before == Get(requirements_store, id)
              after == Get(requirements_store', id)
              snap == LastOf(Val(after.versions))
              new == RequirementDict(last'.req)
          IN  /\ Has(requirements_store, id)
              /\ snap.data =
                     [type         |-> before.type,
                      description  |-> before.description,
                      rationale    |-> before.rationale,
                      source       |-> before.source,
                      priority     |-> before.priority,
                      status       |-> before.status,
                      verification |-> before.verification]
              /\ \A f \in SnapshotFields :
                     new[f] # before[f] => snap.data[f] # new[f]]_vars

\* an update replaced description "A" by "B" and the snapshot holds "A"
C3_Witness ==
    /\ Served("update", 200)
    /\ last.old.description = "A"
    /\ Get(requirements_store, last.display_id).description = "B"
    /\ LastOf(Val(Get(requirements_store, last.display_id).versions))
           .data.description = "A"

\* C4: after a successful update the record's versions are its versions before
\* the update followed by exactly one new snapshot, whatever the payload
\* carries in its versions field.
C4_HistoryAppendOnly ==
    [][(last'.op = "update" /\ last'.status = 200) =>
          LET id == last'.display_id
              before == Val(Get(requirements_store, id).versions)
              after == Val(Get(requirements_store', id).versions)
          IN  /\ ~IsNone(Get(requirements_store, id).versions)
              /\ Len(after) = Len(before) + 1
              /\ SubSeq(after, 1, Len(before)) = before
              /\ last'.body.versions = Some(after)]_vars

\* an update whose payload carries versions was applied to a record with history
C4_Witness ==
    /\ Served("update", 200)
    /\ "versions" \in DOMAIN last.req
    /\ Len(Val(last.old.versions)) >= 1
    /\ Len(Val(Get(requirements_store, last.display_id).versions)) >= 2

\* C5: after a successful update the stored links are the payload's links, or
\* [] when the payload omits links, and an omitted layer, rationale or
\* verification is None: nothing of the replaced record is merged in.
C5_UpdateIsFullReplacement ==
    Served("update", 200) =>
        LET r == Get(requirements_store, last.display_id)
            req == last.req
        IN  /\ r = last.body
            /\ r.links = IF "links" \in DOMAIN req THEN req.links ELSE Some(<<>>)
            /\ "layer" \notin DOMAIN req => r.layer = None
            /\ "rationale" \notin DOMAIN req => r.rationale = None
            /\ "verification" \notin DOMAIN req => r.verification = None

\* a record with a link, a layer, a rationale and a verification was updated
\* with a payload that omits all four
C5_Witness ==
    /\ Served("update", 200)
    /\ DOMAIN last.req = RequiredFields
    /\ last.old.links = Some(<<LinkA>>)
    /\ last.old.layer = Some("System")
    /\ Get(requirements_store, last.display_id).links = Some(<<>>)

\* C6: the record stored and returned by a successful create has versions = [],
\* whatever the payload carries in its versions field.
C6_CreateInitializesHistory ==
    Served("create", 200) =>
        /\ last.body.versions = Some(<<>>)
        /\ Get(requirements_store, last.display_id).versions = Some(<<>>)

\* C7 as claimed: an update of an absent display_id is answered 404 and leaves
\* the store unchanged.
C7_UpdateAbsentIs404 ==
    [][(last'.op = "update" /\ ~Has(requirements_store, last'.display_id)) =>
          /\ last'.status = 404
          /\ requirements_store' = requirements_store]_vars

\* C7 as amended: an update of an absent display_id is answered 404 when its
\* payload passes validation and 422 when it does not, and either way leaves
\* the store unchanged.
C7_UpdateAbsentLeavesStore ==
    [][(last'.op = "update" /\ ~Has(requirements_store, last'.display_id)) =>
          /\ last'.status = IF FieldErrors(last'.req) = {} THEN 404 ELSE 422
          /\ requirements_store' = requirements_store]_vars

\* an update of an absent display_id was answered 404 while a record is stored
C7_Witness ==
    /\ Served("update", 404)
    /\ ~Has(requirements_store, last.display_id)
    /\ Len(requirements_store) >= 1

\* C8: a delete of a stored display_id is answered 200 and removes that record
\* and no other; a delete of an absent display_id, in particular the repeat of
\* a delete that has just succeeded, is answered 404 and leaves the store
\* unchanged.
C8_DeleteNotIdempotent ==
    [][last'.op = "delete" =>
          LET id == last'.display_id
          IN  /\ IF Has(requirements_store, id)
                 THEN /\ last'.status = 200
                      /\ Keys(requirements_store') =
                             Keys(requirements_store) \ {id}
                      /\ \A k \in Keys(requirements_store') :
                             Get(requirements_store', k) =
                                 Get(requirements_store, k)
                 ELSE /\ last'.status = 404
                      /\ requirements_store' = requirements_store
              /\ (last.op = "delete" /\ last.status = 200
                      /\ last.display_id = id) =>
                     /\ last'.status = 404
                     /\ requirements_store' = requirements_store]_vars

\* a delete was repeated right after it succeeded, and was answered 404
C8_Witness ==
    /\ Served("delete", 404)
    /\ last.again
    /\ ~Has(requirements_store, last.display_id)

\* C9: a successful delete of T leaves every other stored record as it was,
\* and an export served right after it is answered with a row
\* (source, type, T) for every link to T that a stored record holds.
C9_DeleteHasNoCrossRecordEffect ==
    [][/\ (last'.op = "delete" /\ last'.status = 200) =>
              \A k \in Keys(requirements_store) \ {last'.display_id} :
                  /\ Has(requirements_store', k)
                  /\ Get(requirements_store', k) = Get(requirements_store, k)
       /\ (last.op = "delete" /\ last.status = 200 /\ last'.op = "export") =>
              \A i \in 1..Len(requirements_store) :
                  LET r == requirements_store[i].val
                  IN  ~IsNone(r.links) =>
                          \A j \in 1..Len(Val(r.links)) :
                              LET l == Val(r.links)[j]
                              IN  l.target_id = last.display_id =>
                                      /\ last'.status = 200
                                      /\ <<r.display_id, l.type, l.target_id>>
                                             \in Range(last'.body)]_vars

\* the closed sets of the vocabulary
ClosedSets ==
    [type     |-> {"Functional", "Non-Functional", "Constraint", "Verification"},
     source   |-> {"Stakeholder", "Document", "PreviousSystem", "Regulation",
                   "SupportTicket", "ProductOwner", "Developer"},
     priority |-> {"Low", "Medium", "High"},
     status   |-> {"Draft", "Approved", "Rejected", "Proposed", "Planned"},
     layer    |-> {"Business", "System", "Software", "Test"},
     link     |-> {"DependsOn", "Satisfies", "Refines", "ConflictsWith"}]

\* the fields of payload req that break a constraint of the record
Offending(req) ==
    {f \in {"type", "description", "source", "priority", "status"} :
        f \notin DOMAIN req}
    \cup {f \in {"type", "source", "priority", "status"} :
             f \in DOMAIN req /\ req[f] \notin ClosedSets[f]}
    \cup {f \in {"description"} : f \in DOMAIN req /\ req[f] = ""}
    \cup {f \in {"layer"} :
             /\ f \in DOMAIN req
             /\ req[f] # None
             /\ Val(req[f]) \notin ClosedSets.layer}
    \cup {f \in {"links"} :
             /\ f \in DOMAIN req
             /\ req[f] # None
             /\ \E i \in 1..Len(Val(req[f])) :
                    Val(req[f])[i].type \notin ClosedSets.link}

\* C10: a create or an update whose payload lacks a required field, holds an
\* enum value outside its closed set or has an empty description is answered
\* 422 with every offending field named, and leaves the store unchanged.
C10_InvalidPayloadRejected ==
    [][(last'.op \in {"create", "update"} /\ Offending(last'.req) # {}) =>
          /\ last'.status = 422
          /\ Offending(last'.req) \subseteq last'.errors
          /\ requirements_store' = requirements_store]_vars

\* an update of a stored record with an empty description was rejected
C10_Witness ==
    /\ Served("update", 422)
    /\ last.errors = {"description"}
    /\ "description" \in DOMAIN last.req
    /\ last.req.description = ""
    /\ Has(requirements_store, last.display_id)

RECURSIVE LinkRows(_)
\* one (source display_id, link type, target_id) row per link of the records
\* vals, in order; a record without links has no row
LinkRows(vals) ==
    IF vals = <<>> THEN <<>>
    ELSE LET req == Head(vals)
             links == IF IsNone(req.links) THEN <<>> ELSE Val(req.links)
         IN  [i \in 1..Len(links) |->
                 <<req.display_id, links[i].type, links[i].target_id>>]
             \o LinkRows(Tail(vals))

\* C11: the export is a pure projection of the live store: whatever creates,
\* updates, deletes and demo loads came before, GET /export/traceability is
\* answered 200 with the header row followed by exactly one row per link of
\* every stored record, in store order then link order, and it leaves the
\* store as it was.
C11_ExportIsProjection ==
    [][last'.op = "export" =>
          /\ last'.status = 200
          /\ last'.body =
                 <<ExportHeader>> \o LinkRows(Values(requirements_store))
          /\ requirements_store' = requirements_store]_vars

\* the links of a payload as the model of the payload holds them
SentLinks(req) == FieldOr(req, "links", Some(<<>>))

\* C12: link targets are never validated: a create, or an update of a stored
\* record that has a history list, whose payload passes the field validation
\* (every link type in the closed set) is answered 200 whatever its target_ids
\* are, and its links are stored and returned exactly as sent.
C12_LinkTargetsNotValidated ==
    [][(/\ last'.op \in {"create", "update"}
        /\ FieldErrors(last'.req) = {}
        /\ last'.op = "update" =>
               /\ Has(requirements_store, last'.display_id)
               /\ ~update_raises(Get(requirements_store, last'.display_id)))
       => /\ last'.status = 200
          /\ Has(requirements_store', last'.display_id)
          /\ Get(requirements_store', last'.display_id).links
                 = SentLinks(last'.req)
          /\ last'.body.links = SentLinks(last'.req)]_vars

\* an update stored a link to a record that links back (a cycle) and a link to
\* an id that no record has, next to a record that links to itself or its peer
C12_Witness ==
    /\ Served("update", 200)
    /\ last.display_id = "REQ-0000AAAA"
    /\ Has(requirements_store, "REQ-0000BBBB")
    /\ ~Has(requirements_store, "REQ-NOTFOUND")
    /\ Get(requirements_store, "REQ-0000AAAA").links
           = Some(<<LinkB, LinkNotFound>>)
    /\ Get(requirements_store, "REQ-0000BBBB").links = Some(<<LinkA>>)

\* C13: display_id is immutable and is the storage key: every record stored
\* under key k has display_id k, an update addressed to k stores display_id k
\* whatever display_id its payload carries, and an update neither adds nor
\* removes a key.
C13_DisplayIdIsKey ==
    [][/\ \A i \in 1..Len(requirements_store') :
              requirements_store'[i].val.display_id = requirements_store'[i].key
       /\ last'.op = "update" =>
              /\ Keys(requirements_store') = Keys(requirements_store)
              /\ last'.status = 200 =>
                     /\ last'.body.display_id = last'.display_id
                     /\ Get(requirements_store', last'.display_id).display_id
                            = last'.display_id]_vars

\* an update whose payload carries another display_id was stored under the
\* key of the path, next to the records of a demo load
C13_Witness ==
    /\ Served("update", 200)
    /\ "display_id" \in DOMAIN last.req
    /\ last.req.display_id = Some("REQ-API-001")
    /\ Get(requirements_store, last.display_id).display_id = last.display_id
    /\ Len(requirements_store) > 2

\* C14: a create whose payload carries a display_id returns and stores a
\* record with that display_id.
C14_CreateKeepsPayloadDisplayId ==
    (/\ Served("create", 200)
     /\ "display_id" \in DOMAIN last.req
     /\ ~IsNone(last.req.display_id))
    => /\ last.body.display_id = Val(last.req.display_id)
       /\ Has(requirements_store, Val(last.req.display_id))

\* C15: a display_id is never reused: a key that a step adds to the store was
\* never the key of a record before, whether that record was deleted, cleared
\* by a demo load or is long gone.
C15_DisplayIdNeverReused ==
    [][\A k \in Keys(requirements_store') \ Keys(requirements_store) :
           k \notin assigned]_vars

\* the length of the history of a stored record, a null history counting as empty
VersionsLen(req) == IF IsNone(req.versions) THEN 0 ELSE Len(Val(req.versions))

\* C16: versions never shrinks: for every display_id stored before and after
\* one create, update, delete, list or export, the history is at least as
\* long after it as before, and it is longer only when the request was an
\* update of that record.
C16_VersionsNeverShrinks ==
    [][last'.op \in {"create", "update", "delete", "list", "export"} =>
          \A k \in Keys(requirements_store) \cap Keys(requirements_store') :
              LET before == VersionsLen(Get(requirements_store, k))
                  after == VersionsLen(Get(requirements_store', k))
              IN  /\ after >= before
                  /\ after > before =>
                         /\ last'.op = "update"
                         /\ last'.display_id = k]_vars

\* the stores a load of demo_name leaves when it starts from an empty store
\* with the counter at n
LoadedStores(demo_name, n) ==
    IF demo_name = "ice_cream" THEN {create_ice_cream_example(<<>>, n)}
    ELSE {create_death_star_example(<<>>, draws) : draws \in DeathStarDraws}


\* the fields of a record that a snapshot holds
Fields(req) == [f \in SnapshotFields |-> req[f]]

\* the record an update r that found the record old under its key would store
\* at time t
Replacement(old, r, t) ==
    update_updated_req(old, r.req, r.display_id, t)

\* C17, as stated: the read-modify-write of an update is not atomic: when an
\* update was received before another write of its record and has not run
\* yet, it can overwrite the entry with a record built from the record that
\* was stored when it was received, whose history lacks the snapshot of the
\* record it overwrites.
C17_UpdateCanLoseSnapshot ==
    \A r \in inflight :
        (/\ ~r.done
         /\ FieldErrors(r.req) = {}
         /\ ~IsNone(r.seen)
         /\ Has(requirements_store, r.display_id)
         /\ Val(r.seen) # Get(requirements_store, r.display_id)
         /\ writes < MaxWrites)
        => ENABLED (\E t \in now..Min(now + 1, MaxClock) :
                       /\ serve_update(r, t)
                       /\ requirements_store' =
                              SetItem(requirements_store, r.display_id,
                                      Replacement(Val(r.seen), r, t)))

\* C17, amended: updates that are in flight together run one after the other:
\* the history of every record has one snapshot per update of it that was
\* answered 200, and the fields such an update wrote are those of the stored
\* record or those of a snapshot of its history.
C17_UpdatesRunOneAfterTheOther ==
    \A k \in Keys(requirements_store) :
        LET served == {r \in inflight :
                          r.done /\ r.status = 200 /\ r.display_id = k}
            req == Get(requirements_store, k)
            versions == Val(req.versions)
        IN  /\ Len(versions) = Cardinality(served)
            /\ \A r \in served :
                   \/ Fields(RequirementDict(r.req)) = Fields(req)
                   \/ \E i \in 1..Len(versions) :
                          versions[i].data = Fields(RequirementDict(r.req))

\* two updates of one record were received before either ran, with different
\* payloads, and both were answered 200
C17_Witness ==
    \E r1, r2 \in inflight :
        /\ r1.n < r2.n
        /\ r1.display_id = r2.display_id
        /\ r1.req # r2.req
        /\ r1.seen = r2.seen
        /\ r1.done /\ r1.status = 200
        /\ r2.done /\ r2.status = 200
        /\ VersionsLen(Get(requirements_store, r1.display_id)) = 2

\* the fields of the Requirement model
RequirementFields ==
    {"display_id", "type", "description", "source", "priority", "status",
     "layer", "rationale", "verification", "versions", "links"}

\* the request of a step writes the entry of key k
Writes(k) ==
    /\ last'.status = 200
    /\ \/ last'.op \in {"create", "update"} /\ k = last'.display_id
       \/ last'.op = "load"

\* the record v under key k of the store a step leaves was written whole by
\* the request of that step
WrittenWhole(k, v) ==
    \/ /\ last'.op = "create" /\ last'.status = 200
       /\ k = last'.display_id
       /\ v = [RequirementDict(last'.req) EXCEPT !.display_id = k]
    \/ /\ last'.op = "update" /\ last'.status = 200
       /\ k = last'.display_id
       /\ LET old == Get(requirements_store, k)
          IN  v = [RequirementDict(last'.req) EXCEPT
                      !.display_id = k,
                      !.versions = Some(Val(old.versions)
                                        \o <<[timestamp |-> now',
                                              data |-> Fields(old)]>>)]
    \/ /\ last'.op = "load" /\ last'.status = 200
       /\ \E store \in LoadedStores(last'.display_id, _counter) :
              [key |-> k, val |-> v] \in Range(store)

\* C18: no torn reads: every record of the store is a complete record: the
\* entry that the create, update or demo load of a step writes holds a value
\* built whole from that one request, with all its fields, its display_id and
\* its history, every other entry holds the value it held before the step,
\* and a list returns the stored records.
C18_NoTornReads ==
    [][/\ \A i \in 1..Len(requirements_store') :
              LET k == requirements_store'[i].key
                  v == requirements_store'[i].val
              IN  /\ DOMAIN v = RequirementFields
                  /\ IF Writes(k)
                     THEN WrittenWhole(k, v)
                     ELSE /\ Has(requirements_store, k)
                          /\ Get(requirements_store, k) = v
       /\ last'.op = "list" =>
              last'.body = Values(requirements_store)]_vars

\* a list returned a record with a history next to other records
C18_Witness ==
    /\ Served("list", 200)
    /\ Len(last.body) >= 2
    /\ \E i \in 1..Len(last.body) : VersionsLen(last.body[i]) >= 1

\* C19: a successful load of ice_cream or death_star resets the store: the
\* store it leaves is the one the loader builds from an empty store, so it
\* holds only records of the loaded demo, and an entry that was stored before
\* is there afterwards only if the load wrote it anew.
C19_LoadResetsStore ==
    [][(last'.op = "load" /\ last'.status = 200) =>
          LET loaded == LoadedStores(last'.display_id, _counter)
          IN  /\ requirements_store' \in loaded
              /\ \A i \in 1..Len(requirements_store) :
                     requirements_store[i] \in Range(requirements_store') =>
                         \E store \in loaded :
                             requirements_store[i] \in Range(store)]_vars

\* the death star demo was loaded over a store that held a created record, of
\* which nothing is left
C19_Witness ==
    /\ Served("load", 200)
    /\ last.display_id = "death_star"
    /\ writes = 2
    /\ "REQ-0000AAAA" \in assigned
    /\ ~Has(requirements_store, "REQ-0000AAAA")
    /\ Len(requirements_store) >= 8
    /\ Keys(requirements_store) \subseteq
           {DeathStarDisplayId(u) :
                u \in UNION {Range(draws) : draws \in DeathStarDraws}}

\* the layer values of the stored records
StoredLayers ==
    {Val(requirements_store[i].val.layer) :
         i \in {j \in 1..Len(requirements_store) :
                    ~IsNone(requirements_store[j].val.layer)}}

\* C20: POST /load-icecream-example is answered 200, and the list served
\* afterwards holds at least 4 records whose layers include all of Business,
\* System, Software and Test.
C20_LoadIcecreamExample ==
    (last.op = "post" /\ last.display_id = "/load-icecream-example")
    => /\ last.status = 200
       /\ Len(Values(requirements_store)) >= 4
       /\ {"Business", "System", "Software", "Test"} \subseteq StoredLayers

\* C21: constructing a Requirement without a display_id fails with a
\* validation error that names display_id: a create or an update whose payload
\* has no display_id is answered 422 with display_id among the fields in
\* error.
C21_DisplayIdIsMandatory ==
    (last.op \in {"create", "update"} /\ "display_id" \notin DOMAIN last.req)
    => /\ last.status = 422
       /\ "display_id" \in last.errors

\* C22: in every reachable state every stored record has a description of
\* length at least 1, and its type, source, priority, status, layer (when
\* set) and link types are values of their closed sets.
C22_StoredRecordsAreValid ==
    \A i \in 1..Len(requirements_store) :
        LET req == requirements_store[i].val
            links == IF IsNone(req.links) THEN <<>> ELSE Val(req.links)
        IN  /\ Len(req.description) >= 1
            /\ req.type \in ClosedSets.type
            /\ req.source \in ClosedSets.source
            /\ req.priority \in ClosedSets.priority
            /\ req.status \in ClosedSets.status
            /\ IsNone(req.layer) \/ Val(req.layer) \in ClosedSets.layer
            /\ \A j \in 1..Len(links) : links[j].type \in ClosedSets.link

\* a create with a priority outside the closed set was rejected while the
\* store holds the records of a demo and a created record that was updated
C22_Witness ==
    /\ Served("create", 422)
    /\ last.errors = {"priority"}
    /\ Len(requirements_store) >= 10
    /\ \E i \in 1..Len(requirements_store) :
           VersionsLen(requirements_store[i].val) >= 1

\* C24: update fails only with NotFound or ValidationError: an update of a
\* stored display_id with a payload that passes validation is answered 200
\* with the replacement record, whatever record an accepted create stored
\* there.
C24_UpdateOfStoredAlwaysSucceeds ==
    [][(/\ last'.op = "update"
        /\ Offending(last'.req) = {}
        /\ Has(requirements_store, last'.display_id))
       => /\ last'.status = 200
          /\ last'.body = Get(requirements_store', last'.display_id)]_vars

\* C25: the history is chronological: the timestamps of the versions of every
\* stored record are non-decreasing in list order, and the timestamp of the
\* snapshot an update appends is the time of that update.
C25_HistoryIsChronological ==
    [][/\ \A i \in 1..Len(requirements_store') :
              LET req == requirements_store'[i].val
                  versions == IF IsNone(req.versions) THEN <<>>
                              ELSE Val(req.versions)
              IN  \A j \in 1..Len(versions) - 1 :
                      versions[j].timestamp <= versions[j + 1].timestamp
       /\ (last'.op = "update" /\ last'.status = 200) =>
              LastOf(Val(last'.body.versions)).timestamp = now']_vars

\* C26: a demo load with a name other than ice_cream and death_star is
\* answered 404 and leaves the store as it was: the store is not cleared.
C26_UnknownDemoLeavesStore ==
    [][(last'.op = "load"
        /\ last'.display_id \notin {"ice_cream", "death_star"})
       => /\ last'.status = 404
          /\ requirements_store' = requirements_store]_vars

\* a load of an unknown demo was refused while records are stored
C26_Witness ==
    /\ Served("load", 404)
    /\ last.display_id = "unknown"
    /\ Len(requirements_store) >= 1

\* the target_ids of the links of the records of the store a step leaves
StoredTargets ==
    UNION {LET req == requirements_store'[i].val
           IN  IF IsNone(req.links) THEN {}
               ELSE {Val(req.links)[j].target_id :
                         j \in 1..Len(Val(req.links))} :
           i \in 1..Len(requirements_store')}

C28_UpdateFrame ==
    [][(last'.op = "update" /\ last'.status = 200) =>
          /\ [i \in 1..Len(requirements_store') |-> requirements_store'[i].key]
                 = [i \in 1..Len(requirements_store) |->
                       requirements_store[i].key]
          /\ \A k \in Keys(requirements_store) \ {last'.display_id} :
                 Get(requirements_store', k) = Get(requirements_store, k)]_vars

\* an update succeeded next to another record that has links and a history
C28_Witness ==
    /\ Served("update", 200)
    /\ \E k \in Keys(requirements_store) \ {last.display_id} :
           LET req == Get(requirements_store, k)
           IN  /\ ~IsNone(req.links) /\ Len(Val(req.links)) >= 1
               /\ VersionsLen(req) >= 1

\* C23: the metadata lookup of each vocabulary returns exactly the string
\* values of its enum, each once, in declaration order, whatever the store
\* holds.
C23_MetadataIsTheVocabulary ==
    last.op = "metadata" =>
        /\ last.status = 200
        /\ Cardinality(Range(last.body)) = Len(last.body)
        /\ last.display_id = "layers" =>
               last.body = <<"Business", "System", "Software", "Test">>
        /\ last.display_id = "types" =>
               last.body = <<"Functional", "Non-Functional", "Constraint",
                             "Verification">>
        /\ last.display_id = "priority" =>
               last.body = <<"Low", "Medium", "High">>
        /\ last.display_id = "source" =>
               last.body = <<"Stakeholder", "Document", "PreviousSystem",
                             "Regulation", "SupportTicket", "ProductOwner",
                             "Developer">>
        /\ last.display_id = "status" =>
               last.body = <<"Draft", "Approved", "Rejected", "Proposed",
                             "Planned">>

\* the sources were looked up while the store holds two records, one updated
C23_Witness ==
    /\ Served("metadata", 200)
    /\ last.display_id = "source"
    /\ Len(last.body) = 7
    /\ Len(requirements_store) = 2
    /\ \E i \in 1..Len(requirements_store) :
           VersionsLen(requirements_store[i].val) >= 1

\* the fields of a record other than its history and those in but
Untouched(old, new, but) ==
    \A f \in (RequirementFields \ {"versions"}) \ but : new[f] = old[f]

\* C29: editing through the UI preserves what the user did not touch: a save
\* of the edit form with no widget changed leaves every field of the record,
\* its layer and links among them, as it was, an approve or reject of a draft
\* changes the status only, and each appends one snapshot.
C29_UiEditPreservesUntouched ==
    [][(/\ last'.op = "update" /\ last'.status = 200
        /\ ~edit_form_raises(Get(requirements_store, last'.display_id)))
       => LET old == Get(requirements_store, last'.display_id)
              new == Get(requirements_store', last'.display_id)
          IN  /\ VersionsLen(new) = VersionsLen(old) + 1
              /\ last'.req = edit_form_payload(old, Values(requirements_store))
                     => Untouched(old, new, {})
              /\ \A status \in {"Approved", "Rejected"} :
                     (old.status = "Draft"
                      /\ last'.req = approve_payload(old, status))
                     => /\ Untouched(old, new, {"status"})
                        /\ new.status = status]_vars

=============================================================================
